---- MODULE Spec2Model ----
(***************************************************************************)
(* Model of the two fine-tuning entry points of packages/text2sql:         *)
(*   finetune_sql.py  full supervised fine-tuning, standalone GGUF export  *)
(*   finetune_mlx.py  LoRA adapter variant driven by mlx_lm subprocesses   *)
(*                                                                         *)
(* Python values: an Optional is a sequence of length 0 (None) or 1, text  *)
(* is a TLA+ string (a sequence of characters), a list is a sequence and a *)
(* dict is a record.  Decorative print() calls (rulers, blank lines, the   *)
(* echo of the arguments, the "next steps" hints) are left out of `out`.   *)
(***************************************************************************)
EXTENDS Integers, Sequences, FiniteSets, TLC

VARIABLES
    script,       \* which entry point runs: "sql" or "mlx"
    host,         \* platform facts the code probes
    argv,         \* the command line given
    args,         \* Optional parsed command line
    pc,           \* position of main()
    device_info,  \* Optional result of get_device_info()
    source,       \* content of the selected dataset source
    loaded,       \* Optional dataset as returned by the loader
    dataset,      \* Optional dataset handed to the splitter
    out,          \* lines printed on the parent's standard output
    err,          \* lines printed on the parent's standard error
    trace,        \* stages entered and subprocess events, in order
    exit_code,    \* Optional exit status of the Python process
    child,        \* subprocess.run child: [name, state, returncode]
    fs,           \* paths that exist on disk
    gguf_path,    \* Optional GGUF path held by main()
    cmd,          \* command line given to Popen
    proc,         \* the Popen subprocess
    pipe_out,     \* lines in the stdout pipe, oldest first
    pipe_err,     \* lines in the stderr pipe, oldest first
    written,      \* every line the subprocess wrote, by stream
    reads,        \* which thread has read from which stream
    relay,        \* the stdout thread: "unstarted", "running", "done"
    proc_returncode  \* Optional proc.returncode, set by proc.wait()

\* state of _run_with_filtered_stderr
run_vars == <<cmd, proc, pipe_out, pipe_err, written, reads, relay, proc_returncode>>

\* state the post-processing of finetune_sql.main leaves alone
data_vars == <<script, host, argv, args, device_info, source, loaded, dataset, child>>

vars == <<script, host, argv, args, pc, device_info, source, loaded, dataset,
          out, err, trace, exit_code, child, fs, gguf_path, run_vars>>

----------------------------------------------------------------------------
(* Bounds of the model *)

\* largest number of rows (or file lines) in a dataset source
MaxRows == 3
\* largest value given to --max-samples
MaxCap == 4
\* most lines the converter writes on its standard error
MaxErrLines == 2
\* most lines the converter writes on its standard output
MaxOutLines == 2
\* lines a pipe holds before a write to it blocks
PipeCap == 1

----------------------------------------------------------------------------
(* Python helpers *)

None == <<>>
Some(x) == <<x>>

Min(a, b) == IF a <= b THEN a ELSE b
Max(a, b) == IF a >= b THEN a ELSE b

\* truth value of an Optional[int]: None and 0 are falsy
Truthy(opt) == opt # None /\ opt[1] # 0

\* seq[:k]
SliceTo(seq, k) ==
    IF k >= 0 THEN SubSeq(seq, 1, Min(k, Len(seq)))
    ELSE SubSeq(seq, 1, Max(Len(seq) + k, 0))

\* `p in s` for two strings
Contains(s, p) ==
    \E i \in 1..(Len(s) - Len(p) + 1) : SubSeq(s, i, i + Len(p) - 1) = p

\* s.strip() is empty
IsBlank(s) == \A i \in 1..Len(s) : SubSeq(s, i, i) \in {" ", "\n", "\t", "\r"}

\* os.path.abspath under the working directory /cwd
AbsPath(p) ==
    IF Len(p) >= 1 /\ SubSeq(p, 1, 1) = "/" THEN p
    ELSE IF Len(p) >= 2 /\ SubSeq(p, 1, 2) = "./" THEN "/cwd/" \o SubSeq(p, 3, Len(p))
    ELSE "/cwd/" \o p

\* os.path.join
Join(a, b) == a \o "/" \o b

\* subprocess.CalledProcessError(returncode, cmd)
CalledProcessError(returncode, command) ==
    [type |-> "CalledProcessError", returncode |-> returncode, cmd |-> command]

\* the FileNotFoundError that Popen raises when the program is not on PATH
FileNotFoundError(filename) ==
    [type |-> "FileNotFoundError", errno |-> 2, filename |-> filename]

\* str() of an exception; a command list is shown by its program
StrOf(exc) ==
    IF exc.type = "FileNotFoundError"
    THEN "[Errno " \o ToString(exc.errno) \o "] No such file or directory: '"
         \o exc.filename \o "'"
    ELSE "Command '[" \o exc.cmd[1] \o ", ...]' returned non-zero exit status "
         \o ToString(exc.returncode) \o "."

\* the line an uncaught exception leaves on standard error
Traceback(exc) ==
    (IF exc.type = "CalledProcessError" THEN "subprocess." ELSE "")
    \o exc.type \o ": " \o StrOf(exc)

\* the classes an exception of the given class is an instance of
Mro(type) ==
    IF type = "CalledProcessError"
    THEN << "CalledProcessError", "SubprocessError", "Exception", "BaseException" >>
    ELSE IF type = "RuntimeError"
    THEN << "RuntimeError", "Exception", "BaseException" >>
    ELSE IF type = "FileNotFoundError"
    THEN << "FileNotFoundError", "OSError", "Exception", "BaseException" >>
    ELSE << type, "Exception", "BaseException" >>

Range(seq) == {seq[i] : i \in 1..Len(seq)}

IsPrefix(s, t) == Len(s) <= Len(t) /\ SubSeq(t, 1, Len(s)) = s

----------------------------------------------------------------------------
(* finetune_sql.get_device_info *)

\* the selection read with `is_mac and` dropped from has_mps
get_device_info_no_mac_check(system, mps_available, cuda_available) ==
    IF mps_available
    THEN [device |-> "mps", bf16 |-> FALSE, fp16 |-> FALSE,
          default_batch_size |-> 2, gradient_checkpointing |-> TRUE]
    ELSE IF cuda_available
    THEN [device |-> "cuda", bf16 |-> TRUE, fp16 |-> FALSE,
          default_batch_size |-> 4, gradient_checkpointing |-> FALSE]
    ELSE [device |-> "cpu", bf16 |-> FALSE, fp16 |-> FALSE,
          default_batch_size |-> 1, gradient_checkpointing |-> TRUE]

\* the table with the GPU profile's bf16 switched off
get_device_info_no_bf16(system, mps_available, cuda_available) ==
    LET is_mac == system = "Darwin"
        has_mps == is_mac /\ mps_available
    IN  IF has_mps
        THEN [device |-> "mps", bf16 |-> FALSE, fp16 |-> FALSE,
              default_batch_size |-> 2, gradient_checkpointing |-> TRUE]
        ELSE IF cuda_available
        THEN [device |-> "cuda", bf16 |-> FALSE, fp16 |-> FALSE,
              default_batch_size |-> 4, gradient_checkpointing |-> FALSE]
        ELSE [device |-> "cpu", bf16 |-> FALSE, fp16 |-> FALSE,
              default_batch_size |-> 1, gradient_checkpointing |-> TRUE]

get_device_info(system, mps_available, cuda_available) ==
    LET is_mac == system = "Darwin"
        has_mps == is_mac /\ mps_available
        has_cuda == cuda_available
    IN  IF has_mps
        THEN [device |-> "mps", bf16 |-> FALSE, fp16 |-> FALSE,
              default_batch_size |-> 2, gradient_checkpointing |-> TRUE]
        ELSE IF has_cuda
        THEN [device |-> "cuda", bf16 |-> TRUE, fp16 |-> FALSE,
              default_batch_size |-> 4, gradient_checkpointing |-> FALSE]
        ELSE [device |-> "cpu", bf16 |-> FALSE, fp16 |-> FALSE,
              default_batch_size |-> 1, gradient_checkpointing |-> TRUE]

----------------------------------------------------------------------------
(* The dataset sources *)

PromptHead == "Given the following SQL schema:\n"
PromptSep == "\n\nWrite a SQL query to answer: "

\* rows of sql-create-context; rows 1 and 2 differ only in where the text
\* of the template's second line is carried: in the question or in the schema
RawPool ==
    << [context  |-> "CREATE TABLE t (a INT)",
        question |-> "How many?" \o PromptSep \o "Which a?",
        answer   |-> "SELECT COUNT(*) FROM t"],
       [context  |-> "CREATE TABLE t (a INT)" \o PromptSep \o "How many?",
        question |-> "Which a?",
        answer   |-> "SELECT COUNT(*) FROM t"],
       [context  |-> "CREATE TABLE u (b INT)",
        question |-> "Which b?",
        answer   |-> "SELECT b FROM u"],
       [context  |-> "CREATE TABLE u (b INT)",
        question |-> "Which b?",
        answer   |-> "SELECT MAX(b) FROM u"],
       [context  |-> "CREATE TABLE v (c INT)",
        question |-> "Which b?",
        answer   |-> "SELECT b FROM u"],
       [context  |-> "",
        question |-> "",
        answer   |-> ""] >>

\* sql-create-context.json: {"rows": [{"row_idx": i, "row": {...}}, ...]}
LocalRows(n) == [i \in 1..Min(n, Len(RawPool)) |-> [row_idx |-> i - 1, row |-> RawPool[i]]]

\* the registry's train split
HubRows(n) == SubSeq(RawPool, 1, Min(n, Len(RawPool)))

\* lines of a JSONL file in chat messages format, blank lines among them
JsonlPool ==
    << "{\"messages\": [{\"role\": \"user\", \"content\": \"q1\"}]}\n",
       "\n",
       "{\"messages\": [{\"role\": \"user\", \"content\": \"q2\"}]}\n",
       "  \t\n",
       "{\"messages\": [{\"role\": \"user\", \"content\": \"q3\"}]}\n",
       "{\"messages\": [{\"role\": \"user\", \"content\": \"q4\"}]}" >>

JsonlLines(n) == SubSeq(JsonlPool, 1, Min(n, Len(JsonlPool)))

\* json.loads on the lines above
json_loads(line) ==
    LET q == IF Contains(line, "q1") THEN "q1"
             ELSE IF Contains(line, "q2") THEN "q2"
             ELSE IF Contains(line, "q3") THEN "q3"
             ELSE "q4"
    IN  [messages |-> << [role |-> "user", content |-> q] >>]

----------------------------------------------------------------------------
(* The loaders *)

RECURSIVE ParseLines(_)
\* [json.loads(line) for line in f if line.strip()]
ParseLines(lines) ==
    IF lines = <<>> THEN <<>>
    ELSE IF IsBlank(Head(lines)) THEN ParseLines(Tail(lines))
    ELSE <<json_loads(Head(lines))>> \o ParseLines(Tail(lines))

load_jsonl_dataset(lines, max_samples) ==
    LET data == ParseLines(lines)
    IN  IF Truthy(max_samples) THEN SliceTo(data, max_samples[1]) ELSE data

\* the cap tested with `is not None` instead of for truth
load_local_dataset_is_not_none(rows, max_samples) ==
    LET kept == IF max_samples # None THEN SliceTo(rows, max_samples[1]) ELSE rows
    IN  [i \in 1..Len(kept) |-> kept[i].row]

load_local_dataset(rows, max_samples) ==
    LET kept == IF Truthy(max_samples) THEN SliceTo(rows, max_samples[1]) ELSE rows
    IN  [i \in 1..Len(kept) |-> kept[i].row]

\* dataset.select(range(min(max_samples, len(dataset))))
load_hf_dataset(rows, max_samples) ==
    IF Truthy(max_samples)
    THEN SubSeq(rows, 1, Min(max_samples[1], Len(rows)))
    ELSE rows

----------------------------------------------------------------------------
(* The formatters *)

\* the template with schema and question in each other's place
format_for_sft_swapped(example) ==
    [prompt |-> << [role |-> "user",
                    content |-> PromptHead \o example.question \o PromptSep
                                \o example.context] >>,
     completion |-> << [role |-> "assistant", content |-> example.answer] >>]

format_for_sft(example) ==
    LET prompt == PromptHead \o example.context \o PromptSep \o example.question
    IN  [prompt |-> << [role |-> "user", content |-> prompt] >>,
         completion |-> << [role |-> "assistant", content |-> example.answer] >>]

to_chat_format(example) ==
    LET user_content ==
            PromptHead \o example.context \o PromptSep \o example.question
    IN  [messages |-> << [role |-> "user", content |-> user_content],
                         [role |-> "assistant", content |-> example.answer] >>]

\* dataset.map(fn, remove_columns=["question", "context", "answer"])
MapSft(rows) == [i \in 1..Len(rows) |-> format_for_sft(rows[i])]
MapChat(rows) == [i \in 1..Len(rows) |-> to_chat_format(rows[i])]

----------------------------------------------------------------------------
(* Inputs of a run *)

Hosts ==
    [system : {"Darwin", "Linux"}, machine : {"arm64", "x86_64"},
     mps_available : BOOLEAN, cuda_available : BOOLEAN,
     docker : {"absent"}, script_cached : {FALSE}]

Caps == {None} \cup {Some(k) : k \in -1..MaxCap}

\* the command line; --input exists in finetune_sql.py only
Argvs(s) ==
    [max_samples : Caps,
     input : IF s = "sql" THEN {None, Some("train.jsonl")} ELSE {None},
     use_hf : BOOLEAN,
     no_gguf : BOOLEAN]

\* what the selected source holds when it has n rows (or lines)
SourceOf(a, n) ==
    IF a.input # None THEN JsonlLines(n)
    ELSE IF a.use_hf THEN HubRows(n)
    ELSE LocalRows(n)

NoChild == [name |-> "none", state |-> "none", returncode |-> 0]

NoProc ==
    [state |-> "none", out_open |-> FALSE, err_open |-> FALSE, want |-> "none",
     status |-> 0]

\* nothing has been started with Popen
InitRun ==
    /\ cmd = <<>>
    /\ proc = NoProc
    /\ pipe_out = <<>>
    /\ pipe_err = <<>>
    /\ written = [stdout |-> <<>>, stderr |-> <<>>]
    /\ reads = {}
    /\ relay = "unstarted"
    /\ proc_returncode = None

Init ==
    /\ script \in {"sql", "mlx"}
    /\ host \in Hosts
    /\ argv \in Argvs(script)
    /\ \E n \in 0..MaxRows : source = SourceOf(argv, n)
    /\ pc = "start"
    /\ args = None
    /\ device_info = None
    /\ loaded = None
    /\ dataset = None
    /\ out = <<>>
    /\ err = <<>>
    /\ trace = <<>>
    /\ exit_code = None
    /\ child = NoChild
    /\ fs = {}
    /\ gguf_path = None
    /\ InitRun

----------------------------------------------------------------------------
(* finetune_sql.main up to the saved model *)

SqlGetDeviceInfo ==
    /\ script = "sql" /\ pc = "start"
    /\ device_info' =
           Some(get_device_info(host.system, host.mps_available, host.cuda_available))
    /\ trace' = Append(trace, "get_device_info")
    /\ pc' = "probed"
    /\ UNCHANGED run_vars
    /\ UNCHANGED <<script, host, argv, args, source, loaded, dataset, out, err,
                   exit_code, child, fs, gguf_path>>

\* no --batch-size on the command line: the device profile's default is used
SqlParseArgs ==
    /\ script = "sql" /\ pc = "probed"
    /\ args' = Some([max_samples |-> argv.max_samples, input |-> argv.input,
                     use_hf |-> argv.use_hf, no_gguf |-> argv.no_gguf,
                     batch_size |-> device_info[1].default_batch_size,
                     output_dir |-> "./.finetune/qwen3-sql"])
    /\ out' = out \o << "Device: " \o device_info[1].device >>
    /\ trace' = Append(trace, "parse_args")
    /\ pc' = "parsed"
    /\ UNCHANGED run_vars
    /\ UNCHANGED <<script, host, argv, device_info, source, loaded, dataset, err,
                   exit_code, child, fs, gguf_path>>

SqlLoadDataset ==
    /\ script = "sql" /\ pc = "parsed"
    /\ loaded' = Some(IF args[1].input # None
                      THEN load_jsonl_dataset(source, args[1].max_samples)
                      ELSE IF args[1].use_hf
                      THEN load_hf_dataset(source, args[1].max_samples)
                      ELSE load_local_dataset(source, args[1].max_samples))
    /\ dataset' = loaded'
    /\ trace' = Append(trace, "load_dataset")
    /\ pc' = "loaded"
    /\ UNCHANGED run_vars
    /\ UNCHANGED <<script, host, argv, args, device_info, source, out, err,
                   exit_code, child, fs, gguf_path>>

\* JSONL input is already in messages format and is not reformatted
SqlFormat ==
    /\ script = "sql" /\ pc = "loaded"
    /\ dataset' = IF args[1].input # None THEN dataset ELSE Some(MapSft(dataset[1]))
    /\ trace' = Append(trace, "format")
    /\ pc' = "formatted"
    /\ UNCHANGED run_vars
    /\ UNCHANGED <<script, host, argv, args, device_info, source, loaded, out, err,
                   exit_code, child, fs, gguf_path>>

\* train_test_split, SFTTrainer.train and save_model run inside the
\* libraries; main only hands the dataset over and names the final path
SqlTrainAndSave ==
    /\ script = "sql" /\ pc = "formatted"
    /\ fs' = fs \cup {args[1].output_dir \o "-final"}
    /\ trace' = Append(trace, "train")
    /\ pc' = "saved"
    /\ UNCHANGED run_vars
    /\ UNCHANGED <<script, host, argv, args, device_info, source, loaded, dataset,
                   out, err, exit_code, child, gguf_path>>

----------------------------------------------------------------------------
(* finetune_mlx *)

\* the platform check with the fatal branch returning instead of exiting
check_apple_silicon_no_exit(system, machine) ==
    IF system # "Darwin"
    THEN [exit |-> None, printed |-> << "ERROR: Not running on macOS" >>]
    ELSE IF machine \notin {"arm64", "aarch64"}
    THEN [exit |-> None, printed |-> << "WARNING: Not running on Apple Silicon" >>]
    ELSE [exit |-> None, printed |-> <<>>]

\* exit: the status given to sys.exit, if it is called; printed: the text
check_apple_silicon(system, machine) ==
    IF system # "Darwin"
    THEN [exit |-> Some(1),
          printed |-> << "ERROR: Not running on macOS",
                         "MLX requires macOS with Apple Silicon (M1/M2/M3/M4)." >>]
    ELSE IF machine \notin {"arm64", "aarch64"}
    THEN [exit |-> None,
          printed |-> << "WARNING: Not running on Apple Silicon",
                         "MLX works best on Apple Silicon (M1/M2/M3/M4)." >>]
    ELSE [exit |-> None, printed |-> <<>>]

\* the trainer run without check=True
run_training_unchecked(output_dir, returncode) ==
    [raised |-> None, adapter_path |-> Join(output_dir, "adapters")]

\* what run_training does once the trainer has exited with returncode
run_training(output_dir, returncode) ==
    LET adapter_path == Join(output_dir, "adapters")
    IN  IF returncode # 0
        THEN [raised |-> Some(CalledProcessError(returncode, << "python", "-m", "mlx_lm.lora" >>)),
              adapter_path |-> adapter_path]
        ELSE [raised |-> None, adapter_path |-> adapter_path]

\* the well-known file probed whether or not export was requested
fuse_and_export_probe_always(output_dir, export_gguf, returncode, files) ==
    LET fused_path == Join(output_dir, "fused_model")
        potential_gguf == Join(fused_path, "ggml-model-f16.gguf")
    IN  IF returncode # 0
        THEN [raised |-> Some(CalledProcessError(returncode, << "python", "-m", "mlx_lm.fuse" >>)),
              fused_path |-> fused_path, gguf_path |-> None]
        ELSE [raised |-> None, fused_path |-> fused_path,
              gguf_path |-> IF potential_gguf \in files
                            THEN Some(potential_gguf) ELSE None]

\* what fuse_and_export does once the fuse process has exited
fuse_and_export(output_dir, export_gguf, returncode, files) ==
    LET fused_path == Join(output_dir, "fused_model")
        potential_gguf == Join(fused_path, "ggml-model-f16.gguf")
    IN  IF returncode # 0
        THEN [raised |-> Some(CalledProcessError(returncode, << "python", "-m", "mlx_lm.fuse" >>)),
              fused_path |-> fused_path, gguf_path |-> None]
        ELSE [raised |-> None, fused_path |-> fused_path,
              gguf_path |-> IF export_gguf /\ potential_gguf \in files
                            THEN Some(potential_gguf) ELSE None]

MlxCheckAppleSilicon ==
    /\ script = "mlx" /\ pc = "start"
    /\ LET r == check_apple_silicon(host.system, host.machine)
       IN  /\ out' = out \o r.printed
           /\ exit_code' = r.exit
           /\ pc' = IF r.exit # None THEN "exited" ELSE "checked"
    /\ trace' = Append(trace, "check_apple_silicon")
    /\ UNCHANGED run_vars
    /\ UNCHANGED <<script, host, argv, args, device_info, source, loaded, dataset,
                   err, child, fs, gguf_path>>

MlxParseArgs ==
    /\ script = "mlx" /\ pc = "checked"
    /\ args' = Some([max_samples |-> argv.max_samples, input |-> None,
                     use_hf |-> argv.use_hf, no_gguf |-> argv.no_gguf,
                     batch_size |-> 4, output_dir |-> "./qwen3-sql-mlx"])
    /\ out' = out \o << "Platform: " \o host.system \o " " \o host.machine >>
    /\ trace' = Append(trace, "parse_args")
    /\ pc' = "parsed"
    /\ UNCHANGED run_vars
    /\ UNCHANGED <<script, host, argv, device_info, source, loaded, dataset, err,
                   exit_code, child, fs, gguf_path>>

\* os.makedirs(args.output_dir, exist_ok=True)
MlxMakeOutputDir ==
    /\ script = "mlx" /\ pc = "parsed"
    /\ fs' = fs \cup {args[1].output_dir}
    /\ trace' = Append(trace, "makedirs")
    /\ pc' = "ready"
    /\ UNCHANGED run_vars
    /\ UNCHANGED <<script, host, argv, args, device_info, source, loaded, dataset,
                   out, err, exit_code, child, gguf_path>>

\* prepare_data: load, convert to the chat format, split inside the
\* library, write the two JSONL files
MlxPrepareData ==
    /\ script = "mlx" /\ pc = "ready"
    /\ loaded' = Some(IF args[1].use_hf
                      THEN load_hf_dataset(source, args[1].max_samples)
                      ELSE load_local_dataset(source, args[1].max_samples))
    /\ dataset' = Some(MapChat(loaded'[1]))
    /\ LET data_dir == Join(args[1].output_dir, "data")
       IN  fs' = fs \cup {data_dir, Join(data_dir, "train.jsonl"),
                          Join(data_dir, "valid.jsonl")}
    /\ trace' = Append(trace, "prepare_data")
    /\ pc' = "prepared"
    /\ UNCHANGED run_vars
    /\ UNCHANGED <<script, host, argv, args, device_info, source, out, err,
                   exit_code, child, gguf_path>>

\* run_training up to subprocess.run, which starts the trainer and blocks
MlxRunTraining ==
    /\ script = "mlx" /\ pc = "prepared"
    /\ child' = [name |-> "mlx_lm.lora", state |-> "running", returncode |-> 0]
    /\ trace' = trace \o << "run_training", "spawn mlx_lm.lora" >>
    /\ pc' = "training"
    /\ UNCHANGED run_vars
    /\ UNCHANGED <<script, host, argv, args, device_info, source, loaded, dataset,
                   out, err, exit_code, fs, gguf_path>>

\* the external process ends with some status; the fuse process may or may
\* not leave the GGUF file (a file of an earlier run may also be there)
ChildExit ==
    /\ child.state = "running"
    /\ \E rc \in {0, 1}, leaves_gguf \in BOOLEAN :
          /\ child' = [child EXCEPT !.state = "exited", !.returncode = rc]
          /\ fs' = fs \cup
                 (IF rc # 0 THEN {}
                  ELSE IF child.name = "mlx_lm.lora"
                  THEN {Join(args[1].output_dir, "adapters")}
                  ELSE {Join(args[1].output_dir, "fused_model")})
                 \cup
                 (IF child.name = "mlx_lm.fuse" /\ leaves_gguf
                  THEN {Join(Join(args[1].output_dir, "fused_model"),
                             "ggml-model-f16.gguf")}
                  ELSE {})
    /\ trace' = Append(trace, "exit " \o child.name)
    /\ UNCHANGED run_vars
    /\ UNCHANGED <<script, host, argv, args, pc, device_info, source, loaded,
                   dataset, out, err, exit_code, gguf_path>>

\* subprocess.run returns; an exception it raises is caught nowhere
MlxRunTrainingReturn ==
    /\ script = "mlx" /\ pc = "training" /\ child.state = "exited"
    /\ LET r == run_training(args[1].output_dir, child.returncode)
       IN  IF r.raised # None
           THEN /\ err' = Append(err, Traceback(r.raised[1]))
                /\ exit_code' = Some(1)
                /\ pc' = "exited"
           ELSE /\ pc' = "trained"
                /\ UNCHANGED <<err, exit_code>>
    /\ UNCHANGED run_vars
    /\ UNCHANGED <<script, host, argv, args, device_info, source, loaded, dataset,
                   out, trace, child, fs, gguf_path>>

MlxFuseAndExport ==
    /\ script = "mlx" /\ pc = "trained"
    /\ child' = [name |-> "mlx_lm.fuse", state |-> "running", returncode |-> 0]
    /\ trace' = trace \o << "fuse_and_export", "spawn mlx_lm.fuse" >>
    /\ pc' = "fusing"
    /\ UNCHANGED run_vars
    /\ UNCHANGED <<script, host, argv, args, device_info, source, loaded, dataset,
                   out, err, exit_code, fs, gguf_path>>

MlxFuseAndExportReturn ==
    /\ script = "mlx" /\ pc = "fusing" /\ child.state = "exited"
    /\ LET r == fuse_and_export(args[1].output_dir, ~args[1].no_gguf,
                                child.returncode, fs)
       IN  IF r.raised # None
           THEN /\ err' = Append(err, Traceback(r.raised[1]))
                /\ exit_code' = Some(1)
                /\ pc' = "exited"
                /\ UNCHANGED gguf_path
           ELSE /\ gguf_path' = r.gguf_path
                /\ pc' = "fused"
                /\ UNCHANGED <<err, exit_code>>
    /\ UNCHANGED run_vars
    /\ UNCHANGED <<script, host, argv, args, device_info, source, loaded, dataset,
                   out, trace, child, fs>>

MlxSummary ==
    /\ script = "mlx" /\ pc = "fused"
    /\ out' = out \o << "Training complete!",
                       "Adapters:    " \o AbsPath(Join(args[1].output_dir, "adapters")),
                       "Fused model: " \o AbsPath(Join(args[1].output_dir, "fused_model")) >>
                  \o (IF gguf_path # None
                      THEN << "GGUF model:  " \o AbsPath(gguf_path[1]) >>
                      ELSE <<>>)
                  \o << "Next steps - Use your fine-tuned model:" >>
                  \o (IF gguf_path # None
                      THEN << "  LMStudio:",
                              "    lms import " \o AbsPath(gguf_path[1])
                                  \o " --user-repo local/qwen3-sql-mlx",
                              "    lms load local/qwen3-sql-mlx --gpu max",
                              "  Ollama:",
                              "    echo 'FROM " \o AbsPath(gguf_path[1])
                                  \o "' > Modelfile",
                              "    ollama create qwen3-sql-mlx -f Modelfile",
                              "    ollama run qwen3-sql-mlx" >>
                      ELSE << "  Generate with MLX:",
                              "    mlx_lm.generate --model "
                                  \o Join(args[1].output_dir, "fused_model")
                                  \o " --prompt 'Your prompt'" >>)
    /\ trace' = Append(trace, "summary")
    /\ exit_code' = Some(0)
    /\ pc' = "exited"
    /\ UNCHANGED run_vars
    /\ UNCHANGED <<script, host, argv, args, device_info, source, loaded, dataset,
                   err, child, fs, gguf_path>>

----------------------------------------------------------------------------
(* Both entry points, finetune_sql.main up to the saved model *)

Next ==
    \/ SqlGetDeviceInfo
    \/ SqlParseArgs
    \/ SqlLoadDataset
    \/ SqlFormat
    \/ SqlTrainAndSave
    \/ MlxCheckAppleSilicon
    \/ MlxParseArgs
    \/ MlxMakeOutputDir
    \/ MlxPrepareData
    \/ MlxRunTraining
    \/ ChildExit
    \/ MlxRunTrainingReturn
    \/ MlxFuseAndExport
    \/ MlxFuseAndExportReturn
    \/ MlxSummary

Spec == Init /\ [][Next]_vars

----------------------------------------------------------------------------
(* Properties of both entry points, checked under Spec *)

\* the rows of the selected source, in source order, before any cap
SourceRows ==
    IF argv.input # None /\ script = "sql" THEN ParseLines(source)
    ELSE IF argv.use_hf THEN source
    ELSE [i \in 1..Len(source) |-> source[i].row]

\* the two precision flags of a device profile
Precision(d) == <<d.bf16, d.fp16>>

\* the profiles get_device_info can return
Profiles ==
    {get_device_info(h.system, h.mps_available, h.cuda_available) : h \in Hosts}

\* the turns of a formatted record, in order
Turns(rec) == IF script = "sql" THEN rec.prompt \o rec.completion ELSE rec.messages

\* the formatter has been applied to the loaded rows
Formatted ==
    /\ dataset # None
    /\ \/ script = "mlx"
       \/ script = "sql" /\ pc \in {"formatted", "saved"} /\ args[1].input = None

\* the order of the stages and subprocess events of a complete adapter run
FullMlxTrace ==
    << "check_apple_silicon", "parse_args", "makedirs", "prepare_data",
       "run_training", "spawn mlx_lm.lora", "exit mlx_lm.lora",
       "fuse_and_export", "spawn mlx_lm.fuse", "exit mlx_lm.fuse", "summary" >>

FailedChild == child.state = "exited" /\ child.returncode # 0

\* C2: in the adapter variant the stages run in the order prepare_data,
\* run_training, fuse_and_export, summary, each subprocess having exited
\* before the next stage starts; once the trainer or the fuse process has
\* exited non-zero nothing is started again or afterwards, the summary is
\* not printed and the process ends with a non-zero status.
C2_StagesInOrderFailureFatal ==
    script = "mlx" =>
        /\ IsPrefix(trace, FullMlxTrace)
        /\ child.state = "running" => pc \in {"training", "fusing"}
        /\ FailedChild =>
              /\ trace[Len(trace)] = "exit " \o child.name
              /\ "Training complete!" \notin Range(out)
              /\ pc \in {"training", "fusing", "exited"}
              /\ pc = "exited" => exit_code = Some(1) /\ err # <<>>
              /\ child.name = "mlx_lm.lora" => "fuse_and_export" \notin Range(trace)
        /\ (pc = "exited" /\ exit_code = Some(0)) =>
              /\ trace = FullMlxTrace
              /\ "Training complete!" \in Range(out)

C2_Witness ==
    /\ script = "mlx" /\ pc = "exited" /\ FailedChild
    /\ child.name = "mlx_lm.lora" /\ exit_code = Some(1)

\* C3: get_device_info always returns a profile, decided by the three
\* platform facts alone: mps (batch 2, checkpointing on) on macOS with the
\* Mac accelerator whatever the GPU, else cuda (batch 4, checkpointing off)
\* with a GPU, else cpu (batch 1, checkpointing on); bf16 and fp16 are never
\* both set.
C3_DeviceProfile ==
    /\ (script = "sql" /\ pc # "start") => device_info # None
    /\ device_info # None =>
          LET d == device_info[1]
              mac_accel == host.system = "Darwin" /\ host.mps_available
          IN  /\ mac_accel =>
                    /\ d.device = "mps" /\ d.default_batch_size = 2
                    /\ d.gradient_checkpointing
              /\ (~mac_accel /\ host.cuda_available) =>
                    /\ d.device = "cuda" /\ d.default_batch_size = 4
                    /\ ~d.gradient_checkpointing
              /\ (~mac_accel /\ ~host.cuda_available) =>
                    /\ d.device = "cpu" /\ d.default_batch_size = 1
                    /\ d.gradient_checkpointing
              /\ ~(d.bf16 /\ d.fp16)

C3_Witness ==
    /\ device_info # None /\ device_info[1].device = "mps"
    /\ host.cuda_available

\* C4 as stated: the precision pairs of any two different profiles differ,
\* and bf16 and fp16 are never both set.
C4_PrecisionPairwiseDistinct ==
    device_info # None =>
        /\ ~(device_info[1].bf16 /\ device_info[1].fp16)
        /\ \A o \in Profiles :
              o.device # device_info[1].device
                  => Precision(o) # Precision(device_info[1])

\* C4 amended: the GPU profile's precision pair (bf16 on, fp16 off) differs
\* from the pairs of the Mac-accelerator and CPU profiles, which are equal
\* (both flags off); bf16 and fp16 are never both set.
C4_GpuPrecisionDistinct ==
    device_info # None =>
        LET d == device_info[1]
        IN  /\ ~(d.bf16 /\ d.fp16)
            /\ \A o \in Profiles :
                  o.device # d.device =>
                      (Precision(o) # Precision(d) <=> "cuda" \in {o.device, d.device})
            /\ d.device # "cuda" => Precision(d) = <<FALSE, FALSE>>

C4_Witness ==
    /\ device_info # None /\ device_info[1].device = "mps"
    /\ \E o \in Profiles : o.device = "cpu" /\ Precision(o) = Precision(device_info[1])

\* C5 as stated: with a cap k >= 0 supplied the loader yields the first
\* min(k, N) source rows in order, and all N rows with no cap.
C5_CapYieldsMin ==
    loaded # None =>
        LET cap == args[1].max_samples
        IN  IF cap = None THEN loaded[1] = SourceRows
            ELSE cap[1] >= 0 =>
                    /\ Len(loaded[1]) = Min(cap[1], Len(SourceRows))
                    /\ loaded[1] = SubSeq(SourceRows, 1, Len(loaded[1]))

\* C5 amended: with a cap k > 0 supplied each loader yields the first
\* min(k, N) source rows in order; with no cap, or with a cap of 0 (which
\* the loaders treat as no cap), it yields all N rows in order.
C5_PositiveCapYieldsMin ==
    loaded # None =>
        LET cap == args[1].max_samples
        IN  IF cap = None \/ cap = Some(0) THEN loaded[1] = SourceRows
            ELSE cap[1] > 0 =>
                    /\ Len(loaded[1]) = Min(cap[1], Len(SourceRows))
                    /\ \A i \in 1..Len(loaded[1]) : loaded[1][i] = SourceRows[i]

C5_Witness ==
    /\ loaded # None /\ args[1].max_samples = Some(2)
    /\ Len(SourceRows) = 3 /\ Len(loaded[1]) = 2

\* every formatted record is the user turn built from the template followed
\* by the assistant turn holding the answer
TwoTurnsFromTemplate ==
    \A i \in 1..Len(dataset[1]) :
        Turns(dataset[1][i]) =
            << [role |-> "user",
                content |-> "Given the following SQL schema:\n"
                            \o loaded[1][i].context
                            \o "\n\nWrite a SQL query to answer: "
                            \o loaded[1][i].question],
               [role |-> "assistant", content |-> loaded[1][i].answer] >>

\* C8 as stated: distinct (schema, question, answer) triples yield distinct
\* records, each record being the two turns built from the template.
C8_FormatterInjective ==
    Formatted =>
        /\ TwoTurnsFromTemplate
        /\ \A i, j \in 1..Len(dataset[1]) :
              loaded[1][i] # loaded[1][j] => dataset[1][i] # dataset[1][j]

\* C8 amended: distinct triples whose schema texts do not contain the
\* template's separator text yield distinct records; every record is the
\* two turns built from the template, schema and question verbatim.
C8_FormatterInjectiveOnPlainSchemas ==
    Formatted =>
        /\ TwoTurnsFromTemplate
        /\ \A i, j \in 1..Len(dataset[1]) :
              (/\ loaded[1][i] # loaded[1][j]
               /\ ~Contains(loaded[1][i].context, PromptSep)
               /\ ~Contains(loaded[1][j].context, PromptSep))
                  => dataset[1][i] # dataset[1][j]

C8_Witness ==
    /\ Formatted /\ Len(dataset[1]) = 3
    /\ ~Contains(loaded[1][1].context, PromptSep)
    /\ ~Contains(loaded[1][3].context, PromptSep)
    /\ dataset[1][1] # dataset[1][3]

\* C9: in the adapter variant, off macOS the platform check ends the process
\* with status 1 after printing the diagnostic and before arguments are
\* parsed, a directory is made, data is prepared or a subprocess is started;
\* on macOS without arm64/aarch64 it prints a warning and the run goes on.
C9_PlatformCheckUpFront ==
    (script = "mlx" /\ pc # "start") =>
        IF host.system # "Darwin"
        THEN /\ pc = "exited" /\ exit_code = Some(1)
             /\ "ERROR: Not running on macOS" \in Range(out)
             /\ trace = << "check_apple_silicon" >>
             /\ args = None /\ fs = {} /\ loaded = None /\ child = NoChild
        ELSE /\ "ERROR: Not running on macOS" \notin Range(out)
             /\ "WARNING: Not running on Apple Silicon" \in Range(out)
                    <=> host.machine \notin {"arm64", "aarch64"}
             /\ Len(trace) = 1 => pc = "checked" /\ exit_code = None

C9_Witness ==
    /\ script = "mlx" /\ host.system = "Linux"
    /\ pc = "exited" /\ exit_code = Some(1) /\ out # <<>>

----------------------------------------------------------------------------
(* finetune_sql: GGUF conversion *)

DOCKER_IMAGE == "ghcr.io/ggml-org/llama.cpp:full"
CONVERT_SCRIPT_URL ==
    "https://raw.githubusercontent.com/ggml-org/llama.cpp/master/convert_hf_to_gguf.py"

\* Path(__file__).parent / ".cache" / "convert_hf_to_gguf.py"
ScriptPath == "/repo/finetune/.cache/convert_hf_to_gguf.py"
VenvPython == "/repo/finetune/.venv/bin/python"

\* (a TLA+ string cannot hold a backquote: the fourth pattern's backquotes
\* are written as apostrophes, here and in the lines that carry it)
filter_patterns ==
    << "incorrect regex pattern",
       "huggingface/tokenizers: The current process just got forked",
       "To disable this warning",
       "Avoid using 'tokenizers' before the fork",
       "Explicitly set the environment variable TOKENIZERS_PARALLELISM" >>

\* the test written with all() instead of any()
forward_stderr_all(line) ==
    ~(\A i \in 1..Len(filter_patterns) : Contains(line, filter_patterns[i]))

\* whether the stderr loop prints the line
forward_stderr(line) ==
    ~(\E i \in 1..Len(filter_patterns) : Contains(line, filter_patterns[i]))

\* the thread started only after the stderr loop
run_steps_late_start ==
    << "popen", "read_stderr", "start_thread", "join", "wait", "check" >>

\* proc.wait() called before anything reads the pipes
run_steps_wait_first ==
    << "popen", "wait", "start_thread", "read_stderr", "join", "check" >>

\* the statements of _run_with_filtered_stderr, in program order
run_steps ==
    << "popen", "start_thread", "read_stderr", "join", "wait", "check" >>

\* the statement after step
After(step) ==
    LET i == CHOOSE k \in 1..Len(run_steps) : run_steps[k] = step
    IN  IF i < Len(run_steps) THEN run_steps[i + 1] ELSE "returned"

\* except RuntimeError as e, around convert_to_gguf
main_catches(exc) == "RuntimeError" \in Range(Mro(exc.type))

\* lines the converter may write on its standard error
ErrLines ==
    { "tokenizer warning: incorrect regex pattern detected\n",
      "huggingface/tokenizers: The current process just got forked, after parallelism\n",
      "To disable this warning, you can either:\n",
      "\t- Avoid using 'tokenizers' before the fork if possible\n",
      "\t- Explicitly set the environment variable TOKENIZERS_PARALLELISM=(true | false)\n",
      "WARNING: Incorrect Regex Pattern\n",
      "ValueError: unsupported model architecture\n" }

\* lines the converter may write on its standard output
OutLines == { "INFO:hf-to-gguf:To disable this warning, set verbosity\n" }

FinalPath == args[1].output_dir \o "-final"

\* main, lines 350-355
SqlBeginGguf ==
    /\ script = "sql" /\ pc = "saved"
    /\ IF ~args[1].no_gguf
       THEN /\ gguf_path' = Some(FinalPath \o ".gguf")
            /\ out' = Append(out, "Converting to GGUF format...")
            /\ pc' = "convert"
       ELSE /\ gguf_path' = None
            /\ out' = out
            /\ pc' = "summary"
    /\ trace' = Append(trace, "gguf")
    /\ UNCHANGED <<data_vars, run_vars, err, exit_code, fs>>

\* subprocess.run(["docker", "--version"], capture_output=True) on a host
\* where docker is absent from PATH, fails, or works
docker_version(docker) ==
    IF docker = "absent"
    THEN [raised |-> Some(FileNotFoundError("docker")), returncode |-> None]
    ELSE [raised |-> None, returncode |-> Some(IF docker = "ok" THEN 0 ELSE 1)]

\* convert_to_gguf up to the call of _run_with_filtered_stderr, with
\* get_convert_script on the script path; an exception of the docker probe
\* leaves convert_to_gguf and reaches main, lines 356-361
SqlConvertToGguf ==
    /\ script = "sql" /\ pc = "convert"
    /\ LET model_path == AbsPath(FinalPath)
           output_path == AbsPath(gguf_path[1])
           is_arm == host.machine \in {"arm64", "aarch64"}
           probe == docker_version(host.docker)
           python_cmd == IF VenvPython \in fs THEN VenvPython ELSE "python3"
       IN  IF probe.raised # None
           THEN LET e == probe.raised[1]
                IN  /\ IF main_catches(e)
                       THEN /\ out' = Append(out, "Warning: GGUF conversion failed: "
                                                  \o StrOf(e))
                            /\ gguf_path' = None
                            /\ pc' = "summary"
                            /\ UNCHANGED <<err, exit_code>>
                       ELSE /\ err' = Append(err, Traceback(e))
                            /\ exit_code' = Some(1)
                            /\ pc' = "exited"
                            /\ UNCHANGED <<out, gguf_path>>
                    /\ UNCHANGED <<cmd, trace, fs>>
           ELSE /\ IF probe.returncode = Some(0) /\ ~is_arm
                   THEN /\ cmd' = << "docker", "run", "--rm",
                                     "-e", "TOKENIZERS_PARALLELISM=false",
                                     "-e", "TRANSFORMERS_VERBOSITY=error",
                                     "-v", model_path \o ":/model:ro",
                                     "-v", "/cwd/.finetune:/output",
                                     DOCKER_IMAGE,
                                     "python3", "/app/convert_hf_to_gguf.py", "/model",
                                     "--outfile", "/output/qwen3-sql-final.gguf",
                                     "--outtype", "q8_0" >>
                        /\ out' = Append(out, "Using Docker image: " \o DOCKER_IMAGE)
                        /\ trace' = Append(trace, "convert docker")
                        /\ fs' = fs \cup {"/cwd/.finetune"}
                   ELSE /\ cmd' = << python_cmd, "-W", "ignore::UserWarning", ScriptPath,
                                     model_path, "--outfile", output_path,
                                     "--outtype", "q8_0" >>
                        /\ out' = out
                              \o (IF ScriptPath \notin fs
                                  THEN << "Downloading conversion script from "
                                          \o CONVERT_SCRIPT_URL \o "..." >>
                                  ELSE <<>>)
                              \o << "Using local conversion script: " \o ScriptPath >>
                        /\ trace' = trace
                              \o (IF ScriptPath \notin fs THEN << "download" >> ELSE <<>>)
                              \o << "convert script" >>
                        /\ fs' = fs \cup {"/cwd/.finetune", ScriptPath}
                /\ pc' = run_steps[1]
                /\ UNCHANGED <<err, exit_code, gguf_path>>
    /\ UNCHANGED <<data_vars, proc, pipe_out, pipe_err, written, reads, relay,
                   proc_returncode>>

----------------------------------------------------------------------------
(* finetune_sql._run_with_filtered_stderr *)

\* subprocess.Popen(cmd, env=env, stdout=PIPE, stderr=PIPE, text=True)
RunPopen ==
    /\ script = "sql" /\ pc = "popen"
    /\ proc' = [state |-> "running", out_open |-> TRUE, err_open |-> TRUE,
                want |-> "none", status |-> 0]
    /\ trace' = Append(trace, "spawn " \o cmd[1])
    /\ pc' = After("popen")
    /\ UNCHANGED <<data_vars, cmd, pipe_out, pipe_err, written, reads, relay,
                   proc_returncode, out, err, exit_code, fs, gguf_path>>

\* stdout_thread.start()
RunStartThread ==
    /\ script = "sql" /\ pc = "start_thread"
    /\ relay' = "running"
    /\ pc' = After("start_thread")
    /\ UNCHANGED <<data_vars, cmd, proc, pipe_out, pipe_err, written, reads,
                   proc_returncode, out, err, trace, exit_code, fs, gguf_path>>

\* stream_stdout: one line of proc.stdout is printed
RelayReadLine ==
    /\ relay = "running" /\ pipe_out # <<>>
    /\ out' = Append(out, Head(pipe_out))
    /\ pipe_out' = Tail(pipe_out)
    /\ reads' = reads \cup {<<"relay", "stdout">>}
    /\ UNCHANGED <<data_vars, cmd, proc, pipe_err, written, relay,
                   proc_returncode, pc, err, trace, exit_code, fs, gguf_path>>

\* stream_stdout: end of file on proc.stdout ends the thread
RelayEof ==
    /\ relay = "running" /\ pipe_out = <<>> /\ proc.state # "none" /\ ~proc.out_open
    /\ relay' = "done"
    /\ UNCHANGED <<data_vars, cmd, proc, pipe_out, pipe_err, written, reads,
                   proc_returncode, pc, out, err, trace, exit_code, fs, gguf_path>>

\* one turn of `for line in proc.stderr`
RunReadStderr ==
    /\ script = "sql" /\ pc = "read_stderr" /\ pipe_err # <<>>
    /\ err' = IF forward_stderr(Head(pipe_err)) THEN Append(err, Head(pipe_err))
              ELSE err
    /\ pipe_err' = Tail(pipe_err)
    /\ reads' = reads \cup {<<"main", "stderr">>}
    /\ UNCHANGED <<data_vars, cmd, proc, pipe_out, written, relay,
                   proc_returncode, pc, out, trace, exit_code, fs, gguf_path>>

\* end of file on proc.stderr ends the loop
RunStderrEof ==
    /\ script = "sql" /\ pc = "read_stderr"
    /\ pipe_err = <<>> /\ ~proc.err_open
    /\ pc' = After("read_stderr")
    /\ UNCHANGED <<data_vars, run_vars, out, err, trace, exit_code, fs, gguf_path>>

\* stdout_thread.join() returns once the thread has ended
RunJoin ==
    /\ script = "sql" /\ pc = "join" /\ relay = "done"
    /\ trace' = Append(trace, "joined")
    /\ pc' = After("join")
    /\ UNCHANGED <<data_vars, run_vars, out, err, exit_code, fs, gguf_path>>

\* proc.wait() returns once the subprocess has exited
RunWait ==
    /\ script = "sql" /\ pc = "wait" /\ proc.state = "exited"
    /\ proc_returncode' = Some(proc.status)
    /\ trace' = Append(trace, "waited")
    /\ pc' = After("wait")
    /\ UNCHANGED <<data_vars, cmd, proc, pipe_out, pipe_err, written, reads, relay,
                   out, err, exit_code, fs, gguf_path>>

\* the return code is tested; convert_to_gguf passes the outcome on to
\* main, lines 356-361
RunCheck ==
    /\ script = "sql" /\ pc = "check"
    /\ IF proc_returncode[1] # 0
       THEN LET e == CalledProcessError(proc_returncode[1], cmd)
            IN  IF main_catches(e)
                THEN /\ out' = Append(out, "Warning: GGUF conversion failed: " \o StrOf(e))
                     /\ gguf_path' = None
                     /\ pc' = "summary"
                     /\ UNCHANGED <<err, exit_code>>
                ELSE /\ err' = Append(err, Traceback(e))
                     /\ exit_code' = Some(1)
                     /\ pc' = "exited"
                     /\ UNCHANGED <<out, gguf_path>>
       ELSE /\ out' = Append(out, "GGUF model saved to: " \o AbsPath(gguf_path[1]))
            /\ pc' = "summary"
            /\ UNCHANGED <<err, exit_code, gguf_path>>
    /\ UNCHANGED <<data_vars, run_vars, trace, fs>>

\* main, lines 363-386
SqlSummary ==
    /\ script = "sql" /\ pc = "summary"
    /\ out' = out \o << "Training complete!",
                       "Model saved to: " \o AbsPath(FinalPath) >>
                  \o (IF gguf_path # None
                      THEN << "GGUF model: " \o AbsPath(gguf_path[1]) >>
                      ELSE <<>>)
    /\ trace' = Append(trace, "summary")
    /\ exit_code' = Some(0)
    /\ pc' = "exited"
    /\ UNCHANGED <<data_vars, run_vars, err, fs, gguf_path>>

----------------------------------------------------------------------------
(* The converter process: any program that writes lines to its two streams *)
(* and then exits.  A write is begun and then completed: it blocks while   *)
(* the pipe is full, and the process does nothing else until it is done.   *)

\* the process begins a write to one of its open streams
ProcBeginWrite ==
    /\ proc.state = "running" /\ proc.want = "none"
    /\ \E stream \in {"stdout", "stderr"} :
          /\ IF stream = "stdout"
             THEN proc.out_open /\ Len(written.stdout) < MaxOutLines
             ELSE proc.err_open /\ Len(written.stderr) < MaxErrLines
          /\ proc' = [proc EXCEPT !.want = stream]
    /\ UNCHANGED <<data_vars, cmd, pipe_out, pipe_err, written, reads, relay,
                   proc_returncode, pc, out, err, trace, exit_code, fs, gguf_path>>

\* the write to standard output completes once the pipe has room
ProcWriteOut ==
    /\ proc.state = "running" /\ proc.want = "stdout"
    /\ Len(pipe_out) < PipeCap
    /\ \E line \in OutLines :
          /\ pipe_out' = Append(pipe_out, line)
          /\ written' = [written EXCEPT !.stdout = Append(@, line)]
    /\ proc' = [proc EXCEPT !.want = "none"]
    /\ UNCHANGED <<data_vars, cmd, pipe_err, reads, relay, proc_returncode,
                   pc, out, err, trace, exit_code, fs, gguf_path>>

\* the write to standard error completes once the pipe has room
ProcWriteErr ==
    /\ proc.state = "running" /\ proc.want = "stderr"
    /\ Len(pipe_err) < PipeCap
    /\ \E line \in ErrLines :
          /\ pipe_err' = Append(pipe_err, line)
          /\ written' = [written EXCEPT !.stderr = Append(@, line)]
    /\ proc' = [proc EXCEPT !.want = "none"]
    /\ UNCHANGED <<data_vars, cmd, pipe_out, reads, relay, proc_returncode,
                   pc, out, err, trace, exit_code, fs, gguf_path>>

\* the process closes its standard output while it keeps running
ProcCloseOut ==
    /\ proc.state = "running" /\ proc.want = "none" /\ proc.out_open
    /\ proc' = [proc EXCEPT !.out_open = FALSE]
    /\ UNCHANGED <<data_vars, cmd, pipe_out, pipe_err, written, reads, relay,
                   proc_returncode, pc, out, err, trace, exit_code, fs, gguf_path>>

\* the process closes its standard error while it keeps running
ProcCloseErr ==
    /\ proc.state = "running" /\ proc.want = "none" /\ proc.err_open
    /\ proc' = [proc EXCEPT !.err_open = FALSE]
    /\ UNCHANGED <<data_vars, cmd, pipe_out, pipe_err, written, reads, relay,
                   proc_returncode, pc, out, err, trace, exit_code, fs, gguf_path>>

\* the process exits with some status; streams still open are closed; a
\* zero status leaves the output file
ProcExit ==
    /\ proc.state = "running" /\ proc.want = "none"
    /\ \E status \in {0, 1} :
          /\ proc' = [state |-> "exited", out_open |-> FALSE, err_open |-> FALSE,
                      want |-> "none", status |-> status]
          /\ fs' = IF status = 0 THEN fs \cup {AbsPath(gguf_path[1])} ELSE fs
    /\ UNCHANGED <<data_vars, cmd, pipe_out, pipe_err, written, reads, relay,
                   proc_returncode, pc, out, err, trace, exit_code, gguf_path>>

----------------------------------------------------------------------------
(* finetune_sql.main from the saved model on *)

GgufHosts ==
    [system : {"Linux"}, machine : {"arm64", "aarch64", "x86_64"},
     mps_available : {FALSE}, cuda_available : {FALSE},
     docker : {"absent", "failing", "ok"}, script_cached : BOOLEAN]

\* the state main is in once trainer.save_model has returned, for a run on
\* the local dataset; the converter script may be cached by an earlier run
InitGguf ==
    /\ script = "sql"
    /\ host \in GgufHosts
    /\ \E no_gguf \in BOOLEAN :
          argv = [max_samples |-> None, input |-> None, use_hf |-> FALSE,
                  no_gguf |-> no_gguf]
    /\ source = LocalRows(1)
    /\ device_info =
           Some(get_device_info(host.system, host.mps_available, host.cuda_available))
    /\ args = Some([max_samples |-> argv.max_samples, input |-> argv.input,
                    use_hf |-> argv.use_hf, no_gguf |-> argv.no_gguf,
                    batch_size |-> device_info[1].default_batch_size,
                    output_dir |-> "./.finetune/qwen3-sql"])
    /\ loaded = Some(load_local_dataset(source, args[1].max_samples))
    /\ dataset = Some(MapSft(loaded[1]))
    /\ out = << "Device: " \o device_info[1].device >>
    /\ err = <<>>
    /\ trace = << "get_device_info", "parse_args", "load_dataset", "format", "train" >>
    /\ pc = "saved"
    /\ exit_code = None
    /\ child = NoChild
    /\ fs = {args[1].output_dir \o "-final"}
            \cup (IF host.script_cached THEN {ScriptPath} ELSE {})
    /\ gguf_path = None
    /\ InitRun

NextGguf ==
    \/ SqlBeginGguf
    \/ SqlConvertToGguf
    \/ RunPopen
    \/ RunStartThread
    \/ RelayReadLine
    \/ RelayEof
    \/ RunReadStderr
    \/ RunStderrEof
    \/ RunJoin
    \/ RunWait
    \/ RunCheck
    \/ SqlSummary
    \/ ProcBeginWrite
    \/ ProcWriteOut
    \/ ProcWriteErr
    \/ ProcCloseOut
    \/ ProcCloseErr
    \/ ProcExit

SpecGguf == InitGguf /\ [][NextGguf]_vars

\* the steps of the three parties of a conversion
ProcStep ==
    \/ ProcBeginWrite
    \/ ProcWriteOut
    \/ ProcWriteErr
    \/ ProcCloseOut
    \/ ProcCloseErr
    \/ ProcExit

RelayStep == RelayReadLine \/ RelayEof

MainStep ==
    \/ SqlBeginGguf
    \/ SqlConvertToGguf
    \/ RunPopen
    \/ RunStartThread
    \/ RunReadStderr
    \/ RunStderrEof
    \/ RunJoin
    \/ RunWait
    \/ RunCheck
    \/ SqlSummary

\* a conversion that reaches _run_with_filtered_stderr: docker answers the
\* probe on an x86_64 machine, so the image is run
InitGgufFair ==
    /\ InitGguf
    /\ ~argv.no_gguf
    /\ host.docker = "ok" /\ host.script_cached
    /\ host.machine = "x86_64"

\* the operating system schedules the subprocess and both threads: none of
\* them stays runnable for ever without taking a step
SpecGgufFair ==
    /\ InitGgufFair
    /\ [][NextGguf]_vars
    /\ WF_vars(ProcStep)
    /\ WF_vars(RelayStep)
    /\ WF_vars(MainStep)

----------------------------------------------------------------------------
(* Properties of the GGUF conversion, checked under SpecGguf *)

\* the lines of ErrLines that carry one of the five benign texts
BenignErrLines ==
    { "tokenizer warning: incorrect regex pattern detected\n",
      "huggingface/tokenizers: The current process just got forked, after parallelism\n",
      "To disable this warning, you can either:\n",
      "\t- Avoid using 'tokenizers' before the fork if possible\n",
      "\t- Explicitly set the environment variable TOKENIZERS_PARALLELISM=(true | false)\n" }

NotBenign(line) == line \notin BenignErrLines

\* the stderr lines the main thread has taken out of the pipe
ConsumedErr == SubSeq(written.stderr, 1, Len(written.stderr) - Len(pipe_err))

\* what the stderr loop has printed (a traceback of main comes after it)
Forwarded == IF exit_code = Some(1) THEN SubSeq(err, 1, Len(err) - 1) ELSE err

PastStderrLoop == pc \in {"join", "wait", "check", "summary", "exited"} /\ proc.state # "none"

Joined == "joined" \in Range(trace)

\* C1: when the converter exits non-zero the run still ends with status 0,
\* a warning line with the error text is printed, and the summary carries
\* no GGUF path (gguf_path is None).
C1_ConversionFailureIsWarning ==
    (script = "sql" /\ pc = "exited" /\ proc_returncode # None
        /\ proc_returncode[1] # 0) =>
        /\ exit_code = Some(0)
        /\ \E i \in 1..Len(out) :
              /\ Contains(out[i], "Warning: GGUF conversion failed: ")
              /\ Contains(out[i], "returned non-zero exit status")
        /\ gguf_path = None
        /\ \A i \in 1..Len(out) : ~Contains(out[i], "GGUF model: ")

\* C6: the parent's standard error carries exactly the lines read from the
\* subprocess's standard error that hold none of the five benign texts,
\* unchanged and in the order written; once the loop has ended that is the
\* filtered sequence of every line the subprocess wrote.
C6_StderrFiltered ==
    script = "sql" =>
        /\ Forwarded = SelectSeq(ConsumedErr, NotBenign)
        /\ PastStderrLoop => Forwarded = SelectSeq(written.stderr, NotBenign)

C6_Witness ==
    /\ PastStderrLoop
    /\ written.stderr = << "To disable this warning, you can either:\n",
                           "WARNING: Incorrect Regex Pattern\n" >>
    /\ err = << "WARNING: Incorrect Regex Pattern\n" >>

\* C10 as stated: the relay thread is started before a line of either
\* stream is read, it is joined only after the subprocess has exited, and
\* stdout is read by the relay thread only, stderr by the main thread only.
C10_JoinedAfterExit ==
    /\ reads # {} => relay # "unstarted"
    /\ Joined => proc.state = "exited"
    /\ reads \subseteq {<<"relay", "stdout">>, <<"main", "stderr">>}

\* C10 amended: the relay thread is started before a line of either stream
\* is read; it is joined only after the subprocess has closed both streams
\* and every line written to them has been read; the exit of the
\* subprocess is awaited after the join, not before it; stdout is read by
\* the relay thread only and stderr by the main thread only.
C10_JoinedAfterStreamsClosed ==
    /\ reads # {} => relay # "unstarted"
    /\ Joined =>
          /\ relay = "done"
          /\ ~proc.out_open /\ ~proc.err_open
          /\ pipe_out = <<>> /\ pipe_err = <<>>
    /\ proc_returncode # None => Joined /\ proc.state = "exited"
    /\ reads \subseteq {<<"relay", "stdout">>, <<"main", "stderr">>}

C10_Witness ==
    /\ Joined /\ proc.state = "running"
    /\ reads = {<<"relay", "stdout">>, <<"main", "stderr">>}

----------------------------------------------------------------------------
(* C11 *)

\* the lines of a stream's output that came from the given set
LinesFrom(seq, lines) ==
    LET RECURSIVE Pick(_)
        Pick(t) == IF t = <<>> THEN <<>>
                   ELSE IF Head(t) \in lines THEN <<Head(t)>> \o Pick(Tail(t))
                   ELSE Pick(Tail(t))
    IN  Pick(seq)

\* the lines of a sequence that the stderr loop prints
ForwardedOf(seq) ==
    LET RECURSIVE Pick(_)
        Pick(t) == IF t = <<>> THEN <<>>
                   ELSE IF forward_stderr(Head(t)) THEN <<Head(t)>> \o Pick(Tail(t))
                   ELSE Pick(Tail(t))
    IN  Pick(seq)

\* every line the subprocess wrote has left its pipe: the standard output
\* lines were printed in order, the standard error lines were printed or
\* dropped in order
AllConsumed ==
    /\ pipe_out = <<>> /\ pipe_err = <<>>
    /\ proc.want = "none"
    /\ LinesFrom(out, OutLines) = written.stdout
    /\ LinesFrom(err, ErrLines) = ForwardedOf(written.stderr)

\* _run_with_filtered_stderr has returned normally or has raised
\* CalledProcessError(returncode, cmd)
CallEnded ==
    /\ pc \in {"summary", "exited"}
    /\ proc.state = "exited"
    /\ proc_returncode = Some(proc.status)
    /\ IF proc.status = 0
       THEN /\ exit_code # Some(1)
            /\ Contains(out[Len(out)], AbsPath(FinalPath))
       ELSE /\ pc = "exited" /\ exit_code = Some(1)
            /\ err # <<>>
            /\ err[Len(err)] = Traceback(CalledProcessError(proc.status, cmd))
            /\ Contains(err[Len(err)], cmd[1])
            /\ Contains(err[Len(err)], ToString(proc.status))

\* C11: under fair scheduling of the subprocess, the relay thread and the
\* main thread, a started converter that writes finitely many lines through
\* bounded pipes, blocking on a full pipe, always leads to a state where
\* every written line has been consumed, the relay thread has ended, and the
\* call has returned (exit status 0) or raised CalledProcessError carrying
\* the command and the exit status (non-zero exit status).
C11_NoDeadlockOnFullPipes ==
    (proc.state = "running") ~> (AllConsumed /\ relay = "done" /\ CallEnded)

\* the subprocess is blocked writing to a full standard output pipe while
\* the main thread sits in the stderr loop with nothing to read
C11_Witness ==
    /\ proc.state = "running" /\ proc.want = "stdout"
    /\ Len(pipe_out) = PipeCap
    /\ pc = "read_stderr" /\ pipe_err = <<>> /\ proc.err_open
    /\ relay = "running"

----------------------------------------------------------------------------
(* C12 *)

\* how often x occurs in seq
Count(seq, x) == Cardinality({i \in 1..Len(seq) : seq[i] = x})

\* the converters started by the run, as RunPopen recorded them
Spawns == {i \in 1..Len(trace) : IsPrefix("spawn ", trace[i])}

\* C12: a call of convert_to_gguf invokes exactly one converter: the
\* containerized one if and only if the container-runtime probe succeeds and
\* the machine is not arm64/aarch64, the cached local script otherwise; the
\* script is downloaded only on the script path and only when it was not in
\* the cache, at most once, and never on the container path.
C12_OneConverterPerCall ==
    (script = "sql" /\ pc = "exited" /\ ~args[1].no_gguf) =>
        LET container == host.docker = "ok"
                         /\ host.machine \notin {"arm64", "aarch64"}
        IN  /\ Cardinality(Spawns) = 1
            /\ Count(trace, "spawn docker") = 1 <=> container
            /\ ~container =>
                  /\ Count(trace, "convert script") = 1
                  /\ cmd[4] = ScriptPath /\ ScriptPath \in fs
            /\ Count(trace, "download") = 1
                  <=> (~container /\ ~host.script_cached)
            /\ Count(trace, "download") <= 1

----------------------------------------------------------------------------
(* C13 *)

\* <output-dir>/fused_model/ggml-model-f16.gguf
WellKnownGguf ==
    Join(Join(args[1].output_dir, "fused_model"), "ggml-model-f16.gguf")

\* the fuse subprocess has finished and fuse_and_export has returned or raised
FuseEnded ==
    /\ script = "mlx" /\ pc \in {"fused", "exited"}
    /\ child.name = "mlx_lm.fuse" /\ child.state = "exited"

\* C13: once fuse_and_export has ended, the GGUF path is set if and only if
\* export was requested, the fuse subprocess exited 0 and the well-known file
\* <output-dir>/fused_model/ggml-model-f16.gguf exists, and then it is that
\* file; with export disabled, or with the file absent after a zero exit, it
\* is None, no error is raised, the summary prints no GGUF path and the run
\* exits 0.
C13_GgufPathIffExported ==
    FuseEnded =>
        /\ gguf_path # None
              <=> (~args[1].no_gguf /\ child.returncode = 0 /\ WellKnownGguf \in fs)
        /\ gguf_path # None => gguf_path = Some(WellKnownGguf)
        /\ (child.returncode = 0 /\ pc = "exited") =>
              /\ exit_code = Some(0) /\ err = <<>>
              /\ out # <<>>
              /\ gguf_path = None =>
                    \A i \in 1..Len(out) :
                        /\ ~Contains(out[i], "GGUF model:")
                        /\ ~Contains(out[i], "ggml-model-f16.gguf")
              /\ gguf_path # None =>
                    \E i \in 1..Len(out) :
                        out[i] = "GGUF model:  " \o AbsPath(WellKnownGguf)

\* export was requested, the fuse subprocess exited 0 and left no GGUF file:
\* the run ended with exit code 0 and no GGUF path
C13_Witness ==
    /\ FuseEnded /\ pc = "exited"
    /\ ~args[1].no_gguf /\ child.returncode = 0 /\ WellKnownGguf \notin fs
    /\ gguf_path = None /\ exit_code = Some(0)
    /\ \E i \in 1..Len(out) : Contains(out[i], "mlx_lm.generate --model")

====
